---- MODULE Spec2Model ----
(***************************************************************************)
(* Model of rpc-toolkit/python_example.py: a script that checks its        *)
(* credentials, then runs three groups of JSON-RPC calls (basic, chain,    *)
(* state) against one HTTP endpoint and exits with 0 or 1.                 *)
(*                                                                         *)
(* The endpoint is the environment: every call of rpc draws one transport  *)
(* outcome (a final HTTP response with a status and a body text, a         *)
(* timeout, or a connection failure).  Console output is not modelled.     *)
(***************************************************************************)
EXTENDS Integers, Sequences, FiniteSets, TLC

VARIABLES env, RPC_USER, RPC_PASS, pc, ip, latest_hash, success, returned,
          exitCode, crashed, wire, log, last, clean

vars == <<env, RPC_USER, RPC_PASS, pc, ip, latest_hash, success, returned,
          exitCode, crashed, wire, log, last, clean>>

(***************************************************************************)
(* Python / JSON values.  A value is a tagged tuple, so that values of     *)
(* different Python types are never equal: None, bool, int, str, list and  *)
(* dict (a dict is the sequence of its <<key, value>> items).              *)
(***************************************************************************)
None == <<"None">>
PyBool(b) == <<"bool", b>>
PyInt(n) == <<"int", n>>
PyStr(s) == <<"str", s>>
PyList(elems) == <<"list", elems>>
PyDict(items) == <<"dict", items>>

IsDict(v) == v[1] = "dict"

\* Python truth value testing, as used by `or` and `if`.
Truthy(v) ==
    CASE v[1] = "None" -> FALSE
      [] v[1] = "bool" -> v[2]
      [] v[1] = "int"  -> v[2] # 0
      [] v[1] = "str"  -> v[2] # ""
      [] v[1] = "list" -> v[2] # <<>>
      [] v[1] = "dict" -> v[2] # <<>>

HasKey(d, k) == IsDict(d) /\ \E i \in 1..Len(d[2]) : d[2][i][1] = k

\* d[k] for a dict d that has the key k.
Subscript(d, k) == d[2][CHOOSE i \in 1..Len(d[2]) : d[2][i][1] = k][2]

\* dict.get(k): the value, or None when the key is missing.
get(d, k) == IF HasKey(d, k) THEN Subscript(d, k) ELSE None

(***************************************************************************)
(* The endpoint's answers.                                                 *)
(***************************************************************************)
\* Status codes of the final response of a call (requests has followed any
\* redirect that names a location): success, a 3xx it does not follow, client
\* and server errors.
Statuses == {200, 201, 204, 300, 304, 404, 500}

\* The statuses whose responses carry no body.
BodylessStatuses == {204, 304}

\* The hash the endpoint may put in a result.
BlockHash == "0xabc"

\* Body texts the endpoint answers with.
BodyTexts ==
    { "{\"jsonrpc\":\"2.0\",\"id\":1,\"result\":\"Subspace\"}",
      "{\"jsonrpc\":\"2.0\",\"id\":1,\"result\":\"0xabc\"}",
      "{\"jsonrpc\":\"2.0\",\"id\":1,\"result\":null}",
      "{\"jsonrpc\":\"2.0\",\"id\":1,\"result\":\"\"}",
      "{\"jsonrpc\":\"2.0\",\"id\":1,\"result\":0}",
      "{\"jsonrpc\":\"2.0\",\"id\":1,\"result\":1000}",
      "{\"jsonrpc\":\"2.0\",\"id\":1,\"error\":{\"code\":-32601}}",
      "{}",
      "[]",
      "\"Subspace\"",
      "null",
      "",
      "<html>Bad Gateway</html>" }

Envelope(member) ==
    PyDict(<< <<"jsonrpc", PyStr("2.0")>>, <<"id", PyInt(1)>>, member >>)

\* The texts of BodyTexts that are JSON documents.
IsJSON(text) == text \notin {"", "<html>Bad Gateway</html>"}

\* json.loads on the texts of BodyTexts that are JSON documents.
loads(text) ==
    CASE text = "{\"jsonrpc\":\"2.0\",\"id\":1,\"result\":\"Subspace\"}"
            -> Envelope(<<"result", PyStr("Subspace")>>)
      [] text = "{\"jsonrpc\":\"2.0\",\"id\":1,\"result\":\"0xabc\"}"
            -> Envelope(<<"result", PyStr(BlockHash)>>)
      [] text = "{\"jsonrpc\":\"2.0\",\"id\":1,\"result\":null}"
            -> Envelope(<<"result", None>>)
      [] text = "{\"jsonrpc\":\"2.0\",\"id\":1,\"result\":\"\"}"
            -> Envelope(<<"result", PyStr("")>>)
      [] text = "{\"jsonrpc\":\"2.0\",\"id\":1,\"result\":0}"
            -> Envelope(<<"result", PyInt(0)>>)
      [] text = "{\"jsonrpc\":\"2.0\",\"id\":1,\"result\":1000}"
            -> Envelope(<<"result", PyInt(1000)>>)
      [] text = "{\"jsonrpc\":\"2.0\",\"id\":1,\"error\":{\"code\":-32601}}"
            -> Envelope(<<"error", PyDict(<< <<"code", PyInt(-32601)>> >>)>>)
      [] text = "{}" -> PyDict(<<>>)
      [] text = "[]" -> PyList(<<>>)
      [] text = "\"Subspace\"" -> PyStr("Subspace")
      [] text = "null" -> None

\* What requests.post comes back with: a response, or an exception raised
\* by the transport.
Transports ==
    [kind : {"response"}, status : Statuses \ BodylessStatuses,
     text : BodyTexts]
    \cup [kind : {"response"}, status : BodylessStatuses, text : {""}]
    \cup [kind : {"Timeout", "ConnectionError"}, status : {0}, text : {""}]

(***************************************************************************)
(* rpc (lines 24-32)                                                       *)
(***************************************************************************)
\* Variant: the params argument is left out of the request body.
PayloadWithoutParams(method, params) ==
    [ jsonrpc |-> "2.0", id |-> 1, method |-> method, params |-> PyList(<<>>) ]

\* The request body built on line 26.
Payload(method, params) ==
    [ jsonrpc |-> "2.0", id |-> 1, method |-> method,
      params |-> IF Truthy(params) THEN params ELSE PyList(<<>>) ]

\* Variant: a request that timed out is sent a second time.
postWithRetry(payload, t) ==
    IF t.kind = "Timeout" THEN <<payload, payload>> ELSE <<payload>>

\* requests.post: the requests one call puts on the wire.
post(payload, t) == <<payload>>

\* Variant: no status is treated as an error.
raise_for_nothing(status) == FALSE

\* Variant: every status but 200 is treated as an error.
raise_unless_200(status) == status # 200

\* Response.raise_for_status: HTTPError for a 4xx or 5xx status.
raise_for_status(status) == 400 <= status /\ status < 600

\* One call of rpc whose transport outcome is t: what it sent, the exception
\* it raised ("none" when it returned) and the value it returned.
rpc(method, params, t) ==
    LET payload == Payload(method, params)
        sent    == post(payload, t)
    IN  IF t.kind # "response"
          THEN [sent |-> sent, raised |-> t.kind, value |-> None]
        ELSE IF raise_for_status(t.status)
          THEN [sent |-> sent, raised |-> "HTTPError", value |-> None]
        ELSE IF ~IsJSON(t.text)
          THEN [sent |-> sent, raised |-> "JSONDecodeError", value |-> None]
        ELSE [sent |-> sent, raised |-> "none", value |-> loads(t.text)]

(***************************************************************************)
(* The call groups (lines 34-95) and the driver (lines 97-110)             *)
(***************************************************************************)
Groups == {"basic", "chain", "state"}

\* The calls of test_basic_methods, in order (lines 41-50).
BasicScript ==
    <<"system_chain", "system_version", "system_health", "chain_getHeader">>

\* The calls of test_state_methods, in order (lines 85-89).
StateScript == <<"state_getRuntimeVersion", "state_getMetadata">>

\* The statement after call i of a group; 0 stands for `return True`.
BasicNext(i) == IF i < Len(BasicScript) THEN i + 1 ELSE 0

StateNext(i) == IF i < Len(StateScript) THEN i + 1 ELSE 0

\* Variant: line 67 tests for the presence of the key, not for its truth value.
ChainNextIfPresent(i, lh) ==
    CASE i = 1 -> IF HasKey(lh, "result") THEN 2 ELSE 3
      [] i = 2 -> 3
      [] i = 3 -> 0

\* test_chain_methods: 1 is chain_getBlockHash (line 63), 2 is
\* chain_getBlock (line 68), 3 is chain_getBlockHash [1000] (line 72).
ChainNext(i, lh) ==
    CASE i = 1 -> IF Truthy(get(lh, "result")) THEN 2 ELSE 3
      [] i = 2 -> 3
      [] i = 3 -> 0

ChainMethod(i) == IF i = 2 THEN "chain_getBlock" ELSE "chain_getBlockHash"

ChainParams(i, lh) ==
    CASE i = 1 -> None
      [] i = 2 -> PyList(<<Subscript(lh, "result")>>)
      [] i = 3 -> PyList(<<PyInt(1000)>>)

\* latest_hash.get on line 67: only a dict has the attribute.
GetAttrError(v) == ~IsDict(v)

\* Variant: every call has a try of its own, the body goes on after a failure.
TryEachCall(exc, next) ==
    IF next = 0 THEN [to |-> "return", ip |-> 0]
    ELSE [to |-> "body", ip |-> next]

\* The try statement: an exception raised in the body leaves it for the
\* except clause, otherwise the body goes on with its next statement.
Try(exc, next) ==
    IF exc # "none" THEN [to |-> "except", ip |-> 0]
    ELSE IF next = 0 THEN [to |-> "return", ip |-> 0]
    ELSE [to |-> "body", ip |-> next]

\* Variant: `except requests.HTTPError`.
CatchesHTTPError(exc) == exc = "HTTPError"

\* `except Exception`: every exception raised in the bodies is one.
Catches(exc) ==
    exc \in {"Timeout", "ConnectionError", "HTTPError", "JSONDecodeError",
             "AttributeError"}

\* Variant: `success = ret`.
Assign(s, ret) == ret

\* `success &= ret` (lines 102-104).
AndAssign(s, ret) == s /\ ret

\* Variant: the driver does not call test_chain_methods.
afterWithoutChain(g) ==
    CASE g = "basic" -> "state"
      [] g = "chain" -> "state"
      [] g = "state" -> "final"

\* The statement of the driver after the call of a group.
after(g) ==
    CASE g = "basic" -> "chain"
      [] g = "chain" -> "state"
      [] g = "state" -> "final"

\* os.getenv(name, default)
getenv(e, name, default) == IF e[name] = <<>> THEN default ELSE e[name][1]

\* Variant: `and` in place of `or` on line 15.
BothCredentialsMissing(user, pass) ==
    ~Truthy(PyStr(user)) /\ ~Truthy(PyStr(pass))

\* The test of line 15.
CredentialsMissing(user, pass) == ~Truthy(PyStr(user)) \/ ~Truthy(PyStr(pass))

\* The answer is an HTTP success status with a JSON document as its body.
CleanAnswer(t) ==
    t.kind = "response" /\ t.status \in 200..299 /\ IsJSON(t.text)

NoExit == -1

NoTransport == [kind |-> "none", status |-> 0, text |-> ""]

NoCall == [t |-> NoTransport, raised |-> "none", value |-> None]

EnvValues == {<<>>, <<"">>, <<"alice">>}

TypeOK ==
    /\ env \in [{"RPC_USER", "RPC_PASS"} -> EnvValues]
    /\ RPC_USER \in {"", "alice"} /\ RPC_PASS \in {"", "alice"}
    /\ pc \in {"check", "main", "basic", "chain", "state", "final", "exited"}
    /\ ip \in 1..4
    /\ success \in BOOLEAN /\ crashed \in BOOLEAN
    /\ exitCode \in {NoExit, 0, 1}
    /\ \A g \in Groups : returned[g] \in {<<>>, <<TRUE>>, <<FALSE>>}
    /\ Len(wire) <= 9 /\ Len(log) <= 9
    /\ last.t \in Transports \cup {NoTransport}
    /\ clean \in BOOLEAN

\* Lines 10-12 have run: the globals hold what the environment gave.
Init ==
    /\ env \in [{"RPC_USER", "RPC_PASS"} -> EnvValues]
    /\ RPC_USER = getenv(env, "RPC_USER", "")
    /\ RPC_PASS = getenv(env, "RPC_PASS", "")
    /\ pc = "check"
    /\ ip = 1
    /\ latest_hash = None
    /\ success = TRUE
    /\ returned = [g \in Groups |-> <<>>]
    /\ exitCode = NoExit
    /\ crashed = FALSE
    /\ wire = <<>>
    /\ log = <<>>
    /\ last = NoCall
    /\ clean = TRUE

\* Lines 15-22: sys.exit(1) when a credential is missing.
CheckCredentials ==
    /\ pc = "check"
    /\ IF CredentialsMissing(RPC_USER, RPC_PASS)
         THEN pc' = "exited" /\ exitCode' = 1
         ELSE pc' = "main" /\ UNCHANGED exitCode
    /\ UNCHANGED <<env, RPC_USER, RPC_PASS, ip, latest_hash, success,
                   returned, crashed, wire, log, last, clean>>

\* Lines 97-101.
Main ==
    /\ pc = "main"
    /\ success' = TRUE
    /\ pc' = "basic"
    /\ ip' = 1
    /\ UNCHANGED <<env, RPC_USER, RPC_PASS, latest_hash, returned, exitCode,
                   crashed, wire, log, last, clean>>

\* One call of a group g: rpc(method, params) answered by t, then the
\* statements up to the next call.  exc is the exception the body raised at
\* this statement, next the statement that follows when it raised none.
\* A return (True from the body, False from the except clause) goes back to
\* the driver, which accumulates it and moves on; an exception the except
\* clause does not catch ends the process with a traceback and code 1.
GroupStep(g, method, params, t, out, exc, next) ==
    LET flow == Try(exc, next) IN
    /\ wire' = wire \o out.sent
    /\ log' = Append(log, [group |-> g, method |-> method, params |-> params,
                           raised |-> (out.raised # "none")])
    /\ last' = [t |-> t, raised |-> out.raised, value |-> out.value]
    /\ clean' = (clean /\ CleanAnswer(t))
    /\ IF flow.to = "body"
         THEN /\ ip' = flow.ip
              /\ UNCHANGED <<pc, success, returned, exitCode, crashed>>
       ELSE IF flow.to = "return" \/ Catches(exc)
         THEN /\ returned' = [returned EXCEPT ![g] = <<flow.to = "return">>]
              /\ success' = AndAssign(success, flow.to = "return")
              /\ pc' = after(g)
              /\ ip' = 1
              /\ UNCHANGED <<exitCode, crashed>>
       ELSE /\ crashed' = TRUE
            /\ exitCode' = 1
            /\ pc' = "exited"
            /\ UNCHANGED <<ip, success, returned>>
    /\ UNCHANGED <<env, RPC_USER, RPC_PASS>>

\* Lines 34-56.
test_basic_methods ==
    /\ pc = "basic"
    /\ \E t \in Transports :
         LET out == rpc(BasicScript[ip], None, t)
         IN  GroupStep("basic", BasicScript[ip], None, t, out, out.raised,
                       BasicNext(ip))
    /\ UNCHANGED latest_hash

\* Lines 58-78.
test_chain_methods ==
    /\ pc = "chain"
    /\ \E t \in Transports :
         LET method == ChainMethod(ip)
             params == ChainParams(ip, latest_hash)
             out    == rpc(method, params, t)
             lh     == IF ip = 1 /\ out.raised = "none"
                         THEN out.value ELSE latest_hash
             exc    == IF out.raised # "none" THEN out.raised
                       ELSE IF ip = 1 /\ GetAttrError(lh)
                         THEN "AttributeError"
                       ELSE "none"
         IN  /\ latest_hash' = lh
             /\ GroupStep("chain", method, params, t, out, exc,
                          ChainNext(ip, lh))

\* Lines 80-95.
test_state_methods ==
    /\ pc = "state"
    /\ \E t \in Transports :
         LET out == rpc(StateScript[ip], None, t)
         IN  GroupStep("state", StateScript[ip], None, t, out, out.raised,
                       StateNext(ip))
    /\ UNCHANGED latest_hash

\* Lines 106-110: sys.exit(1) on failure, otherwise the script ends.
Exit ==
    /\ pc = "final"
    /\ exitCode' = IF success THEN 0 ELSE 1
    /\ pc' = "exited"
    /\ UNCHANGED <<env, RPC_USER, RPC_PASS, ip, latest_hash, success,
                   returned, crashed, wire, log, last, clean>>

Next ==
    \/ CheckCredentials
    \/ Main
    \/ test_basic_methods
    \/ test_chain_methods
    \/ test_state_methods
    \/ Exit

Spec == Init /\ [][Next]_vars

(***************************************************************************)
(* Properties                                                              *)
(***************************************************************************)
\* Both credentials are set in the environment and non-empty.
HasCredentials ==
    /\ env["RPC_USER"] \notin {<<>>, <<"">>}
    /\ env["RPC_PASS"] \notin {<<>>, <<"">>}

Exited == pc = "exited"

\* The values Python takes for false among those a body decodes to.
FalsyValues ==
    {None, PyBool(FALSE), PyInt(0), PyStr(""), PyList(<<>>), PyDict(<<>>)}

\* The positions of the log that belong to group g.
Entries(g) == {i \in 1..Len(log) : log[i].group = g}

FirstMethod(g) ==
    CASE g = "basic" -> "system_chain"
      [] g = "chain" -> "chain_getBlockHash"
      [] g = "state" -> "state_getRuntimeVersion"

\* C1: when RPC_USER or RPC_PASS is empty or unset the process exits with
\* code 1 and no rpc call is made and no request is sent, at any time.
C1_MissingCredentialsExitWithoutRequest ==
    ~HasCredentials =>
        /\ pc \in {"check", "exited"}
        /\ Exited => exitCode = 1
        /\ wire = <<>>
        /\ log = <<>>

C1_Witness ==
    /\ env["RPC_USER"] = <<"alice">>
    /\ env["RPC_PASS"] = <<>>
    /\ Exited
    /\ exitCode = 1

\* C2: with credentials, the exit code is 0 exactly when the three groups
\* all returned True and 1 exactly when at least one returned False.
C2_ExitCodeIsConjunction ==
    (Exited /\ HasCredentials) =>
        /\ \A g \in Groups : returned[g] # <<>>
        /\ exitCode = 0 <=> \A g \in Groups : returned[g] = <<TRUE>>
        /\ exitCode = 1 <=> \E g \in Groups : returned[g] = <<FALSE>>

C2_Witness ==
    /\ Exited
    /\ exitCode = 1
    /\ returned["basic"] = <<FALSE>>
    /\ returned["chain"] = <<TRUE>>
    /\ returned["state"] = <<TRUE>>

\* C3: with credentials, once the driver is through, each of the three groups
\* was entered and sent at least its first call, basic before chain before
\* state, whatever the earlier groups returned.
C3_EveryGroupRuns ==
    (HasCredentials /\ pc \in {"final", "exited"}) =>
        /\ \A g \in Groups :
             /\ Entries(g) # {}
             /\ \E i \in Entries(g) :
                  /\ \A j \in Entries(g) : i <= j
                  /\ log[i].method = FirstMethod(g)
                  /\ i <= Len(wire)
                  /\ wire[i].method = FirstMethod(g)
        /\ \A i \in Entries("basic") : \A j \in Entries("chain") : i < j
        /\ \A i \in Entries("chain") : \A j \in Entries("state") : i < j

C3_Witness ==
    /\ Exited
    /\ returned["basic"] = <<FALSE>>
    /\ returned["chain"] = <<FALSE>>
    /\ Entries("chain") # {}
    /\ Entries("state") # {}

\* C4 as stated: rpc returns the decoded body when the status is 2xx and the
\* body is JSON, and raises, returning nothing, when the status is not 2xx,
\* the request did not complete, or the body is not JSON.
C4_NonSuccessStatusRaises ==
    log # <<>> =>
        /\ (last.t.kind = "response" /\ last.t.status \in 200..299
              /\ IsJSON(last.t.text))
             => (last.raised = "none" /\ last.value = loads(last.t.text))
        /\ (last.t.kind # "response" \/ last.t.status \notin 200..299
              \/ ~IsJSON(last.t.text))
             => (last.raised # "none" /\ last.value = None)

\* C4, amended: rpc raises, returning nothing, when the status is 4xx or 5xx,
\* the request did not complete, or the body is not JSON; in every other case
\* (any other final status with a JSON body) it returns the decoded body.
C4_ErrorStatusRaises ==
    log # <<>> =>
        /\ (last.t.kind = "response" /\ last.t.status \notin 400..599
              /\ IsJSON(last.t.text))
             => (last.raised = "none" /\ last.value = loads(last.t.text))
        /\ (last.t.kind # "response" \/ last.t.status \in 400..599
              \/ ~IsJSON(last.t.text))
             => (last.raised # "none" /\ last.value = None)
        /\ last.t.kind # "response" => last.raised = last.t.kind
        /\ (last.t.kind = "response" /\ last.t.status \in 400..599)
             => last.raised = "HTTPError"

C4_Witness ==
    /\ Len(log) = 1
    /\ log[1].method = "system_chain"
    /\ last.t.status = 300
    /\ last.raised = "none"
    /\ HasKey(last.value, "result")
    /\ Subscript(last.value, "result") = PyStr("Subspace")

\* C5: when a call of a group fails, that group returns False and the error
\* does not leave the group function; for each group and each of its calls.
C5_FailedCallReturnsFalse ==
    /\ ~crashed
    /\ \A i \in 1..Len(log) :
         log[i].raised => returned[log[i].group] = <<FALSE>>

C5_Witness ==
    /\ log # <<>>
    /\ log[Len(log)].method = "chain_getBlock"
    /\ log[Len(log)].raised
    /\ last.raised = "JSONDecodeError"
    /\ returned["chain"] = <<FALSE>>
    /\ pc = "state"

C7_RequestEnvelope ==
    \A i \in 1..Len(log) :
        /\ i <= Len(wire)
        /\ wire[i].jsonrpc = "2.0"
        /\ wire[i].id = 1
        /\ wire[i].method = log[i].method
        /\ wire[i].params =
             IF log[i].params = None THEN PyList(<<>>) ELSE log[i].params
        /\ (log[i].method = "chain_getBlockHash"
              /\ log[i].params = PyList(<<PyInt(1000)>>))
             => wire[i].params = PyList(<<PyInt(1000)>>)

C7_Witness ==
    \E i \in 1..Len(wire) : \E j \in 1..Len(wire) :
        /\ wire[i].method = "chain_getBlock"
        /\ wire[i].params = PyList(<<PyStr(BlockHash)>>)
        /\ wire[j].method = "chain_getBlockHash"
        /\ wire[j].params = PyList(<<PyInt(1000)>>)
        /\ wire[1].params = PyList(<<>>)

\* C8 as stated: when every call of the run got a 2xx status and a JSON
\* body, every group returns True and the exit code is 0, whatever the
\* bodies decode to.
C8_CleanRunExitsZero ==
    (Exited /\ HasCredentials /\ clean) =>
        /\ \A g \in Groups : returned[g] = <<TRUE>>
        /\ exitCode = 0

\* C8, amended: when every call of the run got a 2xx status and a JSON body,
\* the basic and state groups return True, and the chain group returns True
\* and the exit code is 0 exactly when the answer to the first
\* chain_getBlockHash decodes to a mapping (with result, with error or with
\* neither); when it decodes to another JSON value the chain group returns
\* False and the exit code is 1.
C8_CleanRunExitsZeroIfMapping ==
    (Exited /\ HasCredentials /\ clean) =>
        /\ returned["basic"] = <<TRUE>>
        /\ returned["state"] = <<TRUE>>
        /\ returned["chain"] = <<IsDict(latest_hash)>>
        /\ exitCode = IF IsDict(latest_hash) THEN 0 ELSE 1

C8_Witness ==
    /\ Exited
    /\ HasCredentials
    /\ clean
    /\ HasKey(latest_hash, "error")
    /\ exitCode = 0

Scripts(g) ==
    CASE g = "basic" -> {BasicScript}
      [] g = "chain" ->
           { <<"chain_getBlockHash", "chain_getBlock", "chain_getBlockHash">>,
             <<"chain_getBlockHash", "chain_getBlockHash">> }
      [] g = "state" -> {StateScript}

NextGroup(g) == IF g = "basic" THEN "chain" ELSE "state"

\* C10: the calls of a group are requested one after another in the scripted
\* order, and a failed call is the last of its group: the request after it,
\* if there is one, is the first call of the next group.
C10_FirstFailureEndsGroup ==
    /\ \A g \in Groups : \A i \in Entries(g) :
         LET k == Cardinality({j \in Entries(g) : j <= i})
         IN  \E script \in Scripts(g) :
               /\ k <= Len(script)
               /\ \A j \in Entries(g) : j <= i =>
                    log[j].method =
                        script[Cardinality({h \in Entries(g) : h <= j})]
    /\ \A i \in 1..Len(log) :
         (log[i].raised /\ i < Len(log)) =>
             /\ log[i].group # "state"
             /\ log[i+1].group = NextGroup(log[i].group)
             /\ log[i+1].method = FirstMethod(log[i+1].group)
             /\ wire[i+1].method = FirstMethod(log[i+1].group)
    /\ \A i \in 1..Len(log) :
         (log[i].raised /\ i = Len(log)) => pc # log[i].group

C10_Witness ==
    /\ Len(log) >= 2
    /\ log[1].method = "system_chain"
    /\ log[1].raised
    /\ log[2].method = "chain_getBlockHash"
    /\ log[2].group = "chain"

====
